---- MODULE Spec2Model ----
(***************************************************************************)
(* rktbatch: a batch supervisor that spawns one child (a named program or  *)
(* the login shell), relays STDIN -> child stdin and child stdout/stderr   *)
(* -> STDOUT/STDERR (or SYSOUT) over three pipes with a selectex() loop    *)
(* woken by a shutdown ECB, runs an operator-console listener thread and   *)
(* maps the child's wait status to the job step's return code.             *)
(*                                                                         *)
(* The model follows src/main.cpp with the rkt::pipe and rkt::file         *)
(* wrappers.  Threads: the main thread (pc), the console listener (con),   *)
(* the SIGCHLD handler, and the child process with an optional descendant. *)
(* Bytes are small integers; the relay never inspects a byte, so the input *)
(* dataset holds 1..n and the child emits OutByte(k) / ErrByte(k).         *)
(***************************************************************************)
EXTENDS Integers, Sequences, FiniteSets, TLC

\* ---- bounds of the model ------------------------------------------------
BufSize == 2       \* bytes of the relay buffer (char buf[4096], scaled)
PipeCap == 3       \* capacity of a kernel pipe, in bytes
MaxInput == 4      \* longest STDIN dataset content
MaxOut == 2        \* most bytes the child writes to its stdout
MaxErr == 1        \* most bytes the child writes to its stderr
MaxStops == 1      \* most STOP commands the operator issues

\* ---- program constants --------------------------------------------------
READ == 0
WRITE == 1
SIGTERM == 15
SIGTERM_EXIT == 128 + SIGTERM
ERROR_EXIT == 12
ChildPid == 7      \* the pid __spawnp2 returns for the one child

Pipes == {"stdin", "stdout", "stderr"}
Sides == {READ, WRITE}
OutputDDs == {"SYSOUT", "STDOUT", "STDERR"}
ExitCodes == {0, 1, SIGTERM_EXIT}
SIGKILL == 9       \* a signal other than SIGTERM that ends the child
\* the wait statuses of a child that ends by itself or is killed from outside
ExitStatuses ==
    {[exited |-> TRUE, code |-> c] : c \in ExitCodes}
      \cup {[exited |-> FALSE, code |-> SIGKILL]}

Min(a, b) == IF a <= b THEN a ELSE b
Take(s, n) == SubSeq(s, 1, Min(n, Len(s)))
Drop(s, n) == SubSeq(s, Min(n, Len(s)) + 1, Len(s))

\* contents
InputContent(n) == [i \in 1..n |-> i]
OutByte(k) == 10 + k
ErrByte(k) == 20 + k
IsOutByte(b) == b > 10 /\ b <= 20
IsErrByte(b) == b > 20

VARIABLES
    args,            \* parsed command line and the job's DD allocation (inputs)
    pc,              \* position of the main thread in run()/main()
    proc,            \* the supervisor process: "alive", "exited", "aborted", "killed"
    exit_code,       \* exit code of the supervisor once proc = "exited"
    return_code,     \* run(): int return_code
    file_open,       \* rkt::file::m_handle != nullptr, per DD
    file_data,       \* bytes written to each output DD
    file_closes,     \* fclose() calls per DD
    stdin_pos,       \* bytes consumed from the STDIN dataset
    dataset_stdout_ptr,
    dataset_stderr_ptr,
    fd,              \* rkt::pipe::fd[2] of pipe_stdin, pipe_stdout, pipe_stderr
    fd_map,          \* fd_map[3]: descriptors dup()ed for the child, -1 before
    closes,          \* ::close() calls per original pipe descriptor
    pipebuf,         \* bytes held in each kernel pipe
    shutdown_ecb,    \* 0, or 1 once POSTed
    sigchld,         \* [installed, pending]
    child_pid,       \* static pid_t child_pid
    child,           \* the child process
    grand,           \* a descendant the child may spawn: "none", "running", "dead"
    term,            \* processes that have been sent SIGTERM by the supervisor
    sel,             \* result of the last selectex(): [rc, readfds, writefds]
    wr,              \* pipe write in progress: [pend, count]
    con,             \* console listener: "none", "listening", "exited"
    stops,           \* STOP commands issued so far
    call,            \* the last call made directly on a wrapper (rkt::file, ...)
    csv              \* c_string_vector objects and the strings they allocated

vars == <<args, pc, proc, exit_code, return_code, file_open, file_data, file_closes,
          stdin_pos, dataset_stdout_ptr, dataset_stderr_ptr, fd, fd_map, closes,
          pipebuf, shutdown_ecb, sigchld, child_pid, child, grand, term, sel, wr,
          con, stops, call, csv>>

\* ---- rkt::pipe ------------------------------------------------------------
\* descriptor numbers handed out by ::pipe() for the three pipes
PipeFd(p, side) ==
    CASE p = "stdin" -> 3 + side
      [] p = "stdout" -> 5 + side
      [] p = "stderr" -> 7 + side

pipe_is_open(fdv, p, side) == fdv[p][side] # -1

\* pipe::close(side): ::close the descriptor when it is open, then mark it -1.
\* Yields the new fd table and the new count of ::close calls.
\* mutant: the descriptor slot keeps its value after ::close
pipe_close_fd_kept(f) == f

pipe_close_fd(f) == -1

pipe_close(fdv, cl, p, side) ==
    [fd |-> [fdv EXCEPT ![p][side] = pipe_close_fd(fdv[p][side])],
     closes |-> IF fdv[p][side] # -1
                  THEN [cl EXCEPT ![p][side] = @ + 1]
                  ELSE cl]

\* pipe::close(): close(READ); close(WRITE)
pipe_close_both(fdv, cl, p) ==
    LET a == pipe_close(fdv, cl, p, READ)
    IN  pipe_close(a.fd, a.closes, p, WRITE)

\* who holds the ends of a kernel pipe
ParentHoldsWrite(p) ==
    \/ fd[p][WRITE] # -1
    \/ p = "stdout" /\ fd_map[1] # -1
    \/ p = "stderr" /\ fd_map[2] # -1
ChildHolds == child.state = "running" \/ grand = "running"
WriterExists(p) ==
    IF p = "stdin" THEN fd[p][WRITE] # -1 ELSE ParentHoldsWrite(p) \/ ChildHolds
Free(p) == PipeCap - Len(pipebuf[p])

\* select(2) readiness of a pipe end
ReadReady(p) == pipebuf[p] # <<>> \/ ~WriterExists(p)
WriteReady(p) == Free(p) >= 1

\* ---- rkt::file ------------------------------------------------------------
\* file::read(buf, size): the next bytes of the dataset, at most size
file_read(content, pos, size) == SubSeq(content, pos + 1, Min(pos + size, Len(content)))

\* ---- exit status ----------------------------------------------------------
\* lines 305-310: WIFEXITED / WEXITSTATUS and the SIGTERM normalisation
\* mutant: the exit code is returned without the SIGTERM normalisation
normalize_raw(status) == IF status.exited THEN status.code ELSE 0

\* mutant: a death by signal is reported the way a shell does, 128 + signal
normalize_signal(status) ==
    IF status.exited
      THEN IF status.code = SIGTERM_EXIT THEN 0 ELSE status.code
      ELSE 128 + status.code

normalize(status) ==
    IF status.exited
      THEN IF status.code = SIGTERM_EXIT THEN 0 ELSE status.code
      ELSE 0

NoStatus == [exited |-> FALSE, code |-> 0]

\* no wrapper method has been called directly
NoCall == [op |-> "none", this |-> "none", absent |-> FALSE, ret |-> 0, threw |-> FALSE]

\* no c_string_vector exists
NoCsv == [state |-> [o \in {"a", "b"} |-> "none"],
          data |-> [o \in {"a", "b"} |-> <<>>],
          frees |-> <<>>, allocs |-> 0]

\* fd_set readfds, writefds; int select_rc: locals of one loop iteration
NoSel == [rc |-> -1, readfds |-> {}, writefds |-> {}]

Init ==
    /\ args \in [program : BOOLEAN,
                 disable_console_commands : BOOLEAN,
                 STDIN : BOOLEAN, STDOUT : BOOLEAN, STDERR : BOOLEAN,
                 input : {InputContent(n) : n \in 0..MaxInput},
                 STDENV : {[present |-> FALSE, lines |-> <<>>]}]
    /\ args.STDIN \/ args.input = <<>>
    /\ pc = "open"
    /\ proc = "alive"
    /\ exit_code = -1
    /\ return_code = 0
    /\ file_open = [d \in OutputDDs \cup {"STDIN"} |-> FALSE]
    /\ file_data = [d \in OutputDDs |-> <<>>]
    /\ file_closes = [d \in OutputDDs \cup {"STDIN"} |-> 0]
    /\ stdin_pos = 0
    /\ dataset_stdout_ptr = "none"
    /\ dataset_stderr_ptr = "none"
    /\ fd = [p \in Pipes |-> [s \in Sides |-> -1]]
    /\ fd_map = [i \in 0..2 |-> -1]
    /\ closes = [p \in Pipes |-> [s \in Sides |-> 0]]
    /\ pipebuf = [p \in Pipes |-> <<>>]
    /\ shutdown_ecb = 0
    /\ sigchld = [installed |-> FALSE, pending |-> FALSE]
    /\ child_pid = 0
    /\ child = [state |-> "none", pgid |-> 0, status |-> NoStatus,
                got |-> <<>>, out |-> 0, err |-> 0]
    /\ grand = "none"
    /\ term = {}
    /\ sel = NoSel
    /\ wr = [pend |-> <<>>, count |-> 0]
    /\ con = "none"
    /\ stops = 0
    /\ call = NoCall
    /\ csv = NoCsv

Alive == proc = "alive"

\* ---- exceptions and scope exit --------------------------------------------
\* file::close() on every dataset object, pipe::close() on every pipe object:
\* the destructors that run when run() returns or an exception unwinds it.
\* mutant: close() leaves the handle in place
file_close_kept(open, d) == open

file_close(open, d) == [open EXCEPT ![d] = FALSE]

\* mutant: the pipe objects are not closed when the scope is left
DestroyPipes_leak(fdv, cl) == [fd |-> fdv, closes |-> cl]

DestroyPipes(fdv, cl) ==
    LET a == pipe_close_both(fdv, cl, "stderr")
        b == pipe_close_both(a.fd, a.closes, "stdout")
    IN  pipe_close_both(b.fd, b.closes, "stdin")

\* main(): return run(argc, argv), or 12 from the catch block
\* mutant: the catch block returns run()'s code as well
main_result_rc(threw, rc) == rc

main_result(threw, rc) == IF threw THEN ERROR_EXIT ELSE rc

Unwind ==
    /\ Alive
    /\ pc \in {"return", "catch"}
    /\ LET d == DestroyPipes(fd, closes) IN
        /\ fd' = d.fd
        /\ closes' = d.closes
    /\ file_closes' = [d \in DOMAIN file_closes |->
                         IF file_open[d] THEN file_closes[d] + 1 ELSE file_closes[d]]
    /\ file_open' = [d \in DOMAIN file_open |-> FALSE]
    /\ exit_code' = main_result(pc = "catch", return_code)
    /\ proc' = "exited"
    /\ pc' = "done"
    /\ UNCHANGED <<csv, call, args, return_code, file_data, stdin_pos, dataset_stdout_ptr,
                   dataset_stderr_ptr, fd_map, pipebuf, shutdown_ecb, sigchld,
                   child_pid, child, grand, term, sel, wr, con, stops>>

\* ---- run(): setup ---------------------------------------------------------
\* lines 183-201: SYSOUT is opened (allocated when missing; alloc() and the
\* open after it throw on failure), STDIN must exist, STDOUT and STDERR are
\* optional and fall back to SYSOUT.
\* lines 200-201: the dataset when it opened, SYSOUT otherwise
\* mutant: the pointer designates the dataset whether it opened or not
fallback_ptr_primary(is_open, primary) == primary

fallback_ptr(is_open, primary) == IF is_open THEN primary ELSE "SYSOUT"

OpenDatasets ==
    /\ Alive
    /\ pc = "open"
    /\ \E sysout_ok \in BOOLEAN :
         IF ~sysout_ok
           THEN /\ pc' = "catch"
                /\ UNCHANGED <<file_open, dataset_stdout_ptr, dataset_stderr_ptr>>
           ELSE IF args.STDIN
             THEN /\ file_open' = [file_open EXCEPT !["SYSOUT"] = TRUE,
                                                    !["STDIN"] = TRUE,
                                                    !["STDOUT"] = args.STDOUT,
                                                    !["STDERR"] = args.STDERR]
                  /\ dataset_stdout_ptr' = fallback_ptr(args.STDOUT, "STDOUT")
                  /\ dataset_stderr_ptr' = fallback_ptr(args.STDERR, "STDERR")
                  /\ pc' = "pipes"
             ELSE /\ file_open' = [file_open EXCEPT !["SYSOUT"] = TRUE]
                  /\ UNCHANGED <<dataset_stdout_ptr, dataset_stderr_ptr>>
                  /\ pc' = "catch"
    /\ UNCHANGED <<csv, call, args, proc, exit_code, return_code, file_data, file_closes,
                   stdin_pos, fd, fd_map, closes, pipebuf, shutdown_ecb, sigchld,
                   child_pid, child, grand, term, sel, wr, con, stops>>

\* lines 203-212: three pipes, the child's ends dup()ed into fd_map, and the
\* originals of those ends closed in the parent.
DupFd(i) == 9 + i

\* ::pipe() or dup() may fail: the pipe constructor and syscalls::dup throw
SetupFailures == {"none", "pipe", "dup"}

CreatePipes ==
    /\ Alive
    /\ pc = "pipes"
    /\ LET created == [p \in Pipes |-> [s \in Sides |-> PipeFd(p, s)]]
           a == pipe_close(created, closes, "stdin", READ)
           b == pipe_close(a.fd, a.closes, "stdout", WRITE)
           c == pipe_close(b.fd, b.closes, "stderr", WRITE)
       IN  \E failure \in SetupFailures :
             CASE failure = "none" ->
                    /\ fd' = c.fd
                    /\ closes' = c.closes
                    /\ fd_map' = [i \in 0..2 |-> DupFd(i)]
                    /\ pc' = "signals"
               [] failure = "pipe" ->
                    /\ pc' = "catch"
                    /\ UNCHANGED <<fd, closes, fd_map>>
               [] failure = "dup" ->
                    /\ fd' = created
                    /\ pc' = "catch"
                    /\ UNCHANGED <<closes, fd_map>>
    /\ UNCHANGED <<csv, call, args, proc, exit_code, return_code, file_open, file_data,
                   file_closes, stdin_pos, dataset_stdout_ptr, dataset_stderr_ptr,
                   pipebuf, shutdown_ecb, sigchld, child_pid, child, grand, term,
                   sel, wr, con, stops>>

\* line 214, lines 123-130: SIGCHLD -> handle_sigchld
SetupSignalHandlers ==
    /\ Alive
    /\ pc = "signals"
    /\ \E ok \in BOOLEAN :
         IF ok
           THEN /\ sigchld' = [sigchld EXCEPT !.installed = TRUE]
                /\ pc' = "console"
           ELSE /\ pc' = "catch"
                /\ UNCHANGED sigchld
    /\ UNCHANGED <<csv, call, args, proc, exit_code, return_code, file_open, file_data,
                   file_closes, stdin_pos, dataset_stdout_ptr, dataset_stderr_ptr,
                   fd, fd_map, closes, pipebuf, shutdown_ecb, child_pid, child,
                   grand, term, sel, wr, con, stops>>

\* lines 216-234: the detached console thread, unless disabled
\* line 216: if (!disable_console_commands) the thread is started and detached
\* mutant: the listener is started whatever the option says
console_thread_always(disable) == "listening"

console_thread(disable) == IF disable THEN "none" ELSE "listening"

StartConsole ==
    /\ Alive
    /\ pc = "console"
    /\ con' = console_thread(args.disable_console_commands)
    /\ pc' = "env"
    /\ UNCHANGED <<csv, call, args, proc, exit_code, return_code, file_open, file_data,
                   file_closes, stdin_pos, dataset_stdout_ptr, dataset_stderr_ptr,
                   fd, fd_map, closes, pipebuf, shutdown_ecb, sigchld, child_pid,
                   child, grand, term, sel, wr, stops>>

\* ---- make_env() --------------------------------------------------------------
\* Strings are sequences of characters over a small alphabet; the key
\* "_BPX_SHAREAS=" is scaled to "S=" and the value MUST to "M".  A fixed
\* entry of the list is a string of one symbol that stands for its text.
MaxLines == 2      \* most lines of the STDENV dataset
MaxLineLen == 3    \* longest line of the STDENV dataset

Chars == {" ", "#", "S", "=", "N", "M"}
Lines == UNION {[1..k -> Chars] : k \in 0..MaxLineLen}
Delims == {" "}
SharePrefix == <<"S", "=">>
ShareMust == <<"S", "=", "M">>
NullPtr == <<"nullptr">>
HomeDir == "/u/user"
EnvDefaults ==
    << <<"LIBPATH=/lib:/usr/lib">>, <<"PATH=/bin:/usr/bin">>, <<"_BPXK_AUTOCVT=ON">>,
       <<"_BPXK_JOBLOG=STDERR">>, <<"_BPX_SPAWN_SCRIPT=YES">>, <<"_EDC_ADD_ERRNO2=1">> >>

\* std::string::find_first_not_of: the 0-based position, Len(s) standing for npos
find_first_not_of(str, delims) ==
    IF \E i \in 1..Len(str) : str[i] \notin delims
      THEN (CHOOSE i \in 1..Len(str) :
              /\ str[i] \notin delims
              /\ \A j \in 1..(i - 1) : str[j] \in delims) - 1
      ELSE Len(str)

\* part_001:91-93: s.erase(0, s.find_first_not_of(delims))
\* mutant: the line is left as read
ltrim_none(str, delims) == str

ltrim(str, delims) == SubSeq(str, find_first_not_of(str, delims) + 1, Len(str))

\* part_001:104-106: s.rfind(prefix, 0) == 0
\* mutant: no line is taken for an override
starts_with_never(str, prefix) == FALSE

starts_with(str, prefix) ==
    Len(str) >= Len(prefix) /\ SubSeq(str, 1, Len(prefix)) = prefix

\* main.cpp:102-110: the getline loop.  Yields the entries pushed and whether
\* the default for the shared address space is still wanted.
RECURSIVE read_stdenv(_, _)
read_stdenv(lines, acc) ==
    IF lines = <<>> THEN acc
    ELSE LET line == ltrim(Head(lines), Delims) IN
         IF line # <<>> /\ line[1] # "#"
           THEN read_stdenv(Tail(lines),
                            [envp |-> Append(acc.envp, line),
                             share_address_space |->
                               IF starts_with(line, SharePrefix)
                                 THEN FALSE ELSE acc.share_address_space])
           ELSE read_stdenv(Tail(lines), acc)

\* main.cpp:82-119
make_env(home, stdenv) ==
    LET base == EnvDefaults \o << <<"HOME=", home>>, <<"PWD=", home>> >>
        start == [envp |-> base, share_address_space |-> TRUE]
        r == IF stdenv.present THEN read_stdenv(stdenv.lines, start) ELSE start
    IN  (IF r.share_address_space THEN Append(r.envp, ShareMust) ELSE r.envp)
          \o <<NullPtr>>

\* spawn_program: auto envp = make_env();
MakeEnv ==
    /\ Alive
    /\ pc = "env"
    /\ call' = [op |-> "make_env", ret |-> make_env(HomeDir, args.STDENV),
                threw |-> FALSE]
    /\ pc' = "spawn"
    /\ UNCHANGED <<args, proc, exit_code, return_code, file_open, file_data,
                   file_closes, stdin_pos, dataset_stdout_ptr, dataset_stderr_ptr,
                   fd, fd_map, closes, pipebuf, shutdown_ecb, sigchld, child_pid,
                   child, grand, term, sel, wr, con, stops, csv>>

\* lines 134-153: a named program gets SPAWN_NEWPGROUP; the login shell is
\* spawned with a null inheritance structure and stays in the caller's group.
SuperPgid == 5     \* process group of the supervisor itself

spawn_pgid(program) == IF program THEN ChildPid ELSE SuperPgid

SpawnProgram ==
    /\ Alive
    /\ pc = "spawn"
    /\ \E ok \in BOOLEAN :
         IF ok
           THEN /\ child' = [child EXCEPT !.state = "running",
                                          !.pgid = spawn_pgid(args.program)]
                /\ child_pid' = ChildPid
                /\ pc' = "select"
           ELSE /\ UNCHANGED <<child, child_pid>>
                /\ pc' = "catch"
    /\ UNCHANGED <<csv, call, args, proc, exit_code, return_code, file_open, file_data,
                   file_closes, stdin_pos, dataset_stdout_ptr, dataset_stderr_ptr,
                   fd, fd_map, closes, pipebuf, shutdown_ecb, sigchld, grand, term,
                   sel, wr, con, stops>>

\* ---- run(): the relay loop ------------------------------------------------
\* selectex() over the two interest sets and the ECB: the descriptors that are
\* ready, or 0 when none is and the ECB has been posted.  Blocks otherwise.
selectex_ready(readI, writeI) ==
    [readfds |-> {p \in readI : ReadReady(p)},
     writefds |-> {p \in writeI : WriteReady(p)}]

selectex_rc(ready) == Cardinality(ready.readfds \cup ready.writefds)

\* selectex() only waits on the ECB the caller passes; it does not clear it
\* mutant: the wait consumes the post
selectex_ecb_cleared(ecb) == 0

selectex_ecb(ecb) == ecb

\* mutants: the loop's exit test never true, and true with one descriptor ready
loop_break_never(select_rc) == select_rc < 0
loop_break_le1(select_rc) == select_rc <= 1

\* line 274: if (select_rc == 0) break;
loop_break(select_rc) == select_rc = 0

\* lines 258-263: the interest sets of one iteration
\* mutant: the stdin write end is monitored whether open or not
write_interest_always(fdv) == {"stdin"}

write_interest(fdv) == IF pipe_is_open(fdv, "stdin", WRITE) THEN {"stdin"} ELSE {}
\* mutant: FD_SET of the stdout read end left out
read_interest_no_stdout == {"stderr"}

read_interest == {"stdout", "stderr"}

Select ==
    /\ Alive
    /\ pc = "select"
    /\ LET ready == selectex_ready(read_interest, write_interest(fd))
           rc == selectex_rc(ready)
       IN  /\ rc > 0 \/ shutdown_ecb = 1
           /\ sel' = [rc |-> rc, readfds |-> ready.readfds, writefds |-> ready.writefds]
           /\ pc' = IF loop_break(rc) THEN "reap" ELSE "service"
    /\ shutdown_ecb' = selectex_ecb(shutdown_ecb)
    /\ UNCHANGED <<csv, call, args, proc, exit_code, return_code, file_open, file_data,
                   file_closes, stdin_pos, dataset_stdout_ptr, dataset_stderr_ptr,
                   fd, fd_map, closes, pipebuf, sigchld, child_pid,
                   child, grand, term, wr, con, stops>>

\* ::write() on a blocking pipe: the bytes that fit are transferred at once;
\* the call then blocks for the rest (wr.pend) until the reader makes room,
\* or returns the short count when a signal handler interrupts it.
sys_write_now(n, free) == Min(n, free)

\* lines 290-299: for each of stdout and stderr that selectex() reported, one
\* pipe read of at most a buffer, written to the dataset the channel's pointer
\* designates.  Yields the pipes and the datasets afterwards.
\* mutant: the last byte of a buffer is not written to the dataset
relay_out_short(st, p, ptr, isset) ==
    IF isset
      THEN [pipebuf |-> [st.pipebuf EXCEPT ![p] = Drop(@, BufSize)],
            file_data |-> [st.file_data EXCEPT ![ptr] =
                             @ \o Take(st.pipebuf[p], BufSize - 1)]]
      ELSE st

relay_out(st, p, ptr, isset) ==
    IF isset
      THEN [pipebuf |-> [st.pipebuf EXCEPT ![p] = Drop(@, BufSize)],
            file_data |-> [st.file_data EXCEPT ![ptr] = @ \o Take(st.pipebuf[p], BufSize)]]
      ELSE st

\* mutant: stderr is left for a later iteration
service_outputs_stdout_only(pb, fdat) ==
    relay_out([pipebuf |-> pb, file_data |-> fdat],
              "stdout", dataset_stdout_ptr, "stdout" \in sel.readfds)

service_outputs(pb, fdat) ==
    relay_out(relay_out([pipebuf |-> pb, file_data |-> fdat],
                        "stdout", dataset_stdout_ptr, "stdout" \in sel.readfds),
              "stderr", dataset_stderr_ptr, "stderr" \in sel.readfds)

\* lines 276-299: the body of one iteration after selectex() returned > 0.
\* The stdin branch first; when its pipe write blocks the thread stays in
\* pipe::write (pc = "stdin_write") and the output branches follow its return.
Service ==
    /\ Alive
    /\ pc = "service"
    /\ IF pipe_is_open(fd, "stdin", WRITE) /\ "stdin" \in sel.writefds
         THEN LET data == file_read(args.input, stdin_pos, BufSize)
                  bytes_read == Len(data)
                  k == sys_write_now(bytes_read, Free("stdin"))
                  pb == [pipebuf EXCEPT !["stdin"] = @ \o Take(data, k)]
                  o == service_outputs(pb, file_data)
              IN  IF bytes_read > 0
                    THEN /\ stdin_pos' = stdin_pos + bytes_read
                         /\ IF k = bytes_read
                              THEN /\ pipebuf' = o.pipebuf
                                   /\ file_data' = o.file_data
                                   /\ pc' = "select"
                                   /\ sel' = NoSel
                                   /\ UNCHANGED wr
                              ELSE /\ pipebuf' = pb
                                   /\ wr' = [pend |-> Drop(data, k), count |-> k]
                                   /\ pc' = "stdin_write"
                                   /\ UNCHANGED <<file_data, sel>>
                         /\ UNCHANGED <<fd, closes, file_open, file_closes>>
                    ELSE /\ LET c == pipe_close(fd, closes, "stdin", WRITE) IN
                              /\ fd' = c.fd
                              /\ closes' = c.closes
                         /\ file_open' = file_close(file_open, "STDIN")
                         /\ file_closes' = [file_closes EXCEPT !["STDIN"] =
                                              IF file_open["STDIN"] THEN @ + 1 ELSE @]
                         /\ pipebuf' = o.pipebuf
                         /\ file_data' = o.file_data
                         /\ pc' = "select"
                         /\ sel' = NoSel
                         /\ UNCHANGED <<stdin_pos, wr>>
         ELSE /\ LET o == service_outputs(pipebuf, file_data) IN
                   /\ pipebuf' = o.pipebuf
                   /\ file_data' = o.file_data
              /\ pc' = "select"
              /\ sel' = NoSel
              /\ UNCHANGED <<stdin_pos, wr, fd, closes, file_open, file_closes>>
    /\ UNCHANGED <<csv, call, args, proc, exit_code, return_code, dataset_stdout_ptr,
                   dataset_stderr_ptr, fd_map, shutdown_ecb, sigchld, child_pid,
                   child, grand, term, con, stops>>

\* a read or write of this iteration fails with an error other than EINTR:
\* file::read, pipe::write, pipe::read or file::write calls throwError, which
\* unwinds run() to the catch block of main()
IoFailure ==
    /\ Alive
    /\ pc = "service"
    /\ sel.rc > 0
    /\ pc' = "catch"
    /\ UNCHANGED <<csv, call, args, proc, exit_code, return_code, file_open, file_data,
                   file_closes, stdin_pos, dataset_stdout_ptr, dataset_stderr_ptr,
                   fd, fd_map, closes, pipebuf, shutdown_ecb, sigchld, child_pid,
                   child, grand, term, sel, wr, con, stops>>

\* the blocked ::write() of pipe::write (part_003:184-187) going on once the
\* child has read from the pipe
WriteResume ==
    /\ Alive
    /\ pc = "stdin_write"
    /\ Free("stdin") >= 1
    /\ LET k == sys_write_now(Len(wr.pend), Free("stdin")) IN
        /\ pipebuf' = [pipebuf EXCEPT !["stdin"] = @ \o Take(wr.pend, k)]
        /\ wr' = IF k = Len(wr.pend)
                   THEN [pend |-> <<>>, count |-> 0]
                   ELSE [pend |-> Drop(wr.pend, k), count |-> wr.count + k]
        /\ pc' = IF k = Len(wr.pend) THEN "outputs" ELSE "stdin_write"
    /\ UNCHANGED <<csv, call, args, proc, exit_code, return_code, file_open, file_data,
                   file_closes, stdin_pos, dataset_stdout_ptr, dataset_stderr_ptr,
                   fd, fd_map, closes, shutdown_ecb, sigchld, child_pid, child,
                   grand, term, sel, con, stops>>

\* lines 290-299 after a pipe write that had blocked
ServiceOutputs ==
    /\ Alive
    /\ pc = "outputs"
    /\ LET o == service_outputs(pipebuf, file_data) IN
        /\ pipebuf' = o.pipebuf
        /\ file_data' = o.file_data
    /\ pc' = "select"
    /\ sel' = NoSel
    /\ UNCHANGED <<csv, call, args, proc, exit_code, return_code, file_open, file_closes,
                   stdin_pos, dataset_stdout_ptr, dataset_stderr_ptr, fd, fd_map,
                   closes, shutdown_ecb, sigchld, child_pid, child, grand, term,
                   wr, con, stops>>

\* lines 302-311: blocking waitpid on the child, then the return code
Reap ==
    /\ Alive
    /\ pc = "reap"
    /\ child.state = "zombie"
    /\ child' = [child EXCEPT !.state = "reaped"]
    /\ return_code' = normalize(child.status)
    /\ pc' = "return"
    /\ UNCHANGED <<csv, call, args, proc, exit_code, file_open, file_data, file_closes,
                   stdin_pos, dataset_stdout_ptr, dataset_stderr_ptr, fd, fd_map,
                   closes, pipebuf, shutdown_ecb, sigchld, child_pid, grand, term,
                   sel, wr, con, stops>>

\* ---- SIGCHLD --------------------------------------------------------------
\* lines 52-61: the handler POSTs the ECB.  It runs on whichever thread the
\* signal is delivered to; delivered to the main thread while that is blocked
\* in ::write() with part of the buffer transferred, the write returns the
\* short count.
Threads == {"main"} \cup (IF con = "listening" THEN {"console"} ELSE {})

\* mutant: the handler returns without the POST
post_shutdown_ecb_none(ecb) == ecb

post_shutdown_ecb(ecb) == 1

HandleSigchld ==
    /\ Alive
    /\ sigchld.installed
    /\ sigchld.pending
    /\ sigchld' = [sigchld EXCEPT !.pending = FALSE]
    /\ shutdown_ecb' = post_shutdown_ecb(shutdown_ecb)
    /\ \E t \in Threads :
         IF t = "main" /\ pc = "stdin_write"
           THEN /\ wr' = [pend |-> <<>>, count |-> 0]
                /\ pc' = "outputs"
           ELSE UNCHANGED <<wr, pc>>
    /\ UNCHANGED <<csv, call, args, proc, exit_code, return_code, file_open, file_data,
                   file_closes, stdin_pos, dataset_stdout_ptr, dataset_stderr_ptr,
                   fd, fd_map, closes, pipebuf, child_pid, child, grand, term,
                   sel, con, stops>>

\* ---- the child and its process group --------------------------------------
ChildRead ==
    /\ Alive
    /\ child.state = "running"
    /\ pipebuf["stdin"] # <<>>
    /\ child' = [child EXCEPT !.got = Append(@, Head(pipebuf["stdin"]))]
    /\ pipebuf' = [pipebuf EXCEPT !["stdin"] = Tail(@)]
    /\ UNCHANGED <<csv, call, args, pc, proc, exit_code, return_code, file_open, file_data,
                   file_closes, stdin_pos, dataset_stdout_ptr, dataset_stderr_ptr,
                   fd, fd_map, closes, shutdown_ecb, sigchld, child_pid, grand,
                   term, sel, wr, con, stops>>

ChildWriteOut ==
    /\ Alive
    /\ child.state = "running"
    /\ child.out < MaxOut
    /\ Free("stdout") >= 1
    /\ child' = [child EXCEPT !.out = @ + 1]
    /\ pipebuf' = [pipebuf EXCEPT !["stdout"] = Append(@, OutByte(child.out + 1))]
    /\ UNCHANGED <<csv, call, args, pc, proc, exit_code, return_code, file_open, file_data,
                   file_closes, stdin_pos, dataset_stdout_ptr, dataset_stderr_ptr,
                   fd, fd_map, closes, shutdown_ecb, sigchld, child_pid, grand,
                   term, sel, wr, con, stops>>

ChildWriteErr ==
    /\ Alive
    /\ child.state = "running"
    /\ child.err < MaxErr
    /\ Free("stderr") >= 1
    /\ child' = [child EXCEPT !.err = @ + 1]
    /\ pipebuf' = [pipebuf EXCEPT !["stderr"] = Append(@, ErrByte(child.err + 1))]
    /\ UNCHANGED <<csv, call, args, pc, proc, exit_code, return_code, file_open, file_data,
                   file_closes, stdin_pos, dataset_stdout_ptr, dataset_stderr_ptr,
                   fd, fd_map, closes, shutdown_ecb, sigchld, child_pid, grand,
                   term, sel, wr, con, stops>>

\* the child spawns a descendant, which inherits its process group
ChildFork ==
    /\ Alive
    /\ child.state = "running"
    /\ grand = "none"
    /\ grand' = "running"
    /\ UNCHANGED <<csv, call, args, pc, proc, exit_code, return_code, file_open, file_data,
                   file_closes, stdin_pos, dataset_stdout_ptr, dataset_stderr_ptr,
                   fd, fd_map, closes, pipebuf, shutdown_ecb, sigchld, child_pid,
                   child, term, sel, wr, con, stops>>

\* the child exits by itself; the kernel raises SIGCHLD for the supervisor
ChildExit ==
    /\ Alive
    /\ child.state = "running"
    /\ \E st \in ExitStatuses :
         child' = [child EXCEPT !.state = "zombie", !.status = st]
    /\ sigchld' = [sigchld EXCEPT !.pending = TRUE]
    /\ UNCHANGED <<csv, call, args, pc, proc, exit_code, return_code, file_open, file_data,
                   file_closes, stdin_pos, dataset_stdout_ptr, dataset_stderr_ptr,
                   fd, fd_map, closes, pipebuf, shutdown_ecb, child_pid, grand,
                   term, sel, wr, con, stops>>

\* kill(pid, sig) with pid <= 0 addresses a process group: the caller's own
\* for 0, group -pid otherwise
kill_group(pid) == IF pid = 0 THEN SuperPgid ELSE 0 - pid

GroupMembers(g) ==
    (IF g = SuperPgid THEN {"super"} ELSE {})
      \cup (IF child.state \in {"running", "zombie"} /\ child.pgid = g
              THEN {"child"} ELSE {})
      \cup (IF grand = "running" /\ child.pgid = g THEN {"grand"} ELSE {})

\* lines 75-80: kill_process(pid, signal) is checked_kill(-pid, signal)
kill_process_target(pid) == kill_group(0 - pid)

\* what SIGTERM does to the child: killed by the signal, or (a shell, a
\* handler) an exit with the conventional status 128 + SIGTERM; a child that
\* ignores or handles the signal goes on running
TermStatus == {[exited |-> FALSE, code |-> SIGTERM],
               [exited |-> TRUE, code |-> SIGTERM_EXIT]}

\* ---- the console listener --------------------------------------------------
\* lines 227-231: no break follows kill_process(); the while (true) goes on
\* mutant: the listener leaves its loop after a STOP
console_after_stop_break == "exited"

console_after_stop == "listening"

\* lines 222-231: a STOP command: kill_process(child_pid, SIGTERM).  ESRCH
\* from kill() is thrown out of the thread's function: std::terminate.
ConsoleStop ==
    /\ Alive
    /\ con = "listening"
    /\ stops < MaxStops
    /\ stops' = stops + 1
    /\ LET m == GroupMembers(kill_process_target(child_pid)) IN
         IF m = {}
           THEN /\ proc' = "aborted"
                /\ UNCHANGED <<term, child, grand, sigchld, con>>
           ELSE /\ term' = term \cup m
                /\ con' = console_after_stop
                /\ proc' = IF "super" \in m THEN "killed" ELSE proc
                /\ grand' = IF "grand" \in m THEN "dead" ELSE grand
                /\ IF "child" \in m /\ child.state = "running"
                     THEN \/ /\ \E st \in TermStatus :
                                  child' = [child EXCEPT !.state = "zombie",
                                                         !.status = st]
                             /\ sigchld' = [sigchld EXCEPT !.pending = TRUE]
                          \/ UNCHANGED <<child, sigchld>>
                     ELSE UNCHANGED <<child, sigchld>>
    /\ UNCHANGED <<csv, call, args, pc, exit_code, return_code, file_open, file_data,
                   file_closes, stdin_pos, dataset_stdout_ptr, dataset_stderr_ptr,
                   fd, fd_map, closes, pipebuf, shutdown_ecb, child_pid, sel, wr>>

\* lines 223-226: __console() fails; the listener logs and ends
ConsoleError ==
    /\ Alive
    /\ con = "listening"
    /\ con' = "exited"
    /\ UNCHANGED <<csv, call, args, pc, proc, exit_code, return_code, file_open, file_data,
                   file_closes, stdin_pos, dataset_stdout_ptr, dataset_stderr_ptr,
                   fd, fd_map, closes, pipebuf, shutdown_ecb, sigchld, child_pid,
                   child, grand, term, sel, wr, stops>>

Next ==
    \/ OpenDatasets
    \/ CreatePipes
    \/ SetupSignalHandlers
    \/ StartConsole
    \/ MakeEnv
    \/ SpawnProgram
    \/ Select
    \/ Service
    \/ WriteResume
    \/ ServiceOutputs
    \/ Reap
    \/ Unwind
    \/ HandleSigchld
    \/ ChildRead
    \/ ChildWriteOut
    \/ ChildWriteErr
    \/ ChildFork
    \/ ChildExit
    \/ ConsoleStop
    \/ ConsoleError

Spec == Init /\ [][Next]_vars

\* the same program in an environment where relay I/O can fail
NextIo == Next \/ IoFailure
SpecIo == Init /\ [][NextIo]_vars

\* ---- rkt::file on its own ---------------------------------------------------
\* The methods of rkt::file called in any order on two objects, one over
\* //DD:STDIN (mode "r") and one over //DD:STDOUT (mode "w"); a DD the job
\* step lacks cannot be opened.  pc = "file" between calls, "catch" once a
\* call has thrown.
MaxFile == 2       \* most bytes written to a dataset
MaxCloses == 2     \* fclose() calls on an object after which it is not reopened

FileObjs == {"STDIN", "STDOUT"}

\* part_002:203 and :220: if (!m_handle) throwError("File not open")
file_not_open_throws(open) == ~open

InitFile ==
    /\ args \in [program : {FALSE},
                 disable_console_commands : {TRUE},
                 STDIN : BOOLEAN, STDOUT : BOOLEAN, STDERR : {FALSE},
                 input : {InputContent(n) : n \in 0..MaxInput}]
    /\ args.STDIN \/ args.input = <<>>
    /\ pc = "file"
    /\ proc = "alive"
    /\ exit_code = -1
    /\ return_code = 0
    /\ file_open = [d \in OutputDDs \cup {"STDIN"} |-> FALSE]
    /\ file_data = [d \in OutputDDs |-> <<>>]
    /\ file_closes = [d \in OutputDDs \cup {"STDIN"} |-> 0]
    /\ stdin_pos = 0
    /\ dataset_stdout_ptr = "none"
    /\ dataset_stderr_ptr = "none"
    /\ fd = [p \in Pipes |-> [s \in Sides |-> -1]]
    /\ fd_map = [i \in 0..2 |-> -1]
    /\ closes = [p \in Pipes |-> [s \in Sides |-> 0]]
    /\ pipebuf = [p \in Pipes |-> <<>>]
    /\ shutdown_ecb = 0
    /\ sigchld = [installed |-> FALSE, pending |-> FALSE]
    /\ child_pid = 0
    /\ child = [state |-> "none", pgid |-> 0, status |-> NoStatus,
                got |-> <<>>, out |-> 0, err |-> 0]
    /\ grand = "none"
    /\ term = {}
    /\ sel = NoSel
    /\ wr = [pend |-> <<>>, count |-> 0]
    /\ con = "none"
    /\ stops = 0
    /\ call = NoCall
    /\ csv = NoCsv

\* what no method of rkt::file touches
FileFrame ==
    UNCHANGED <<args, proc, exit_code, return_code, dataset_stdout_ptr,
                dataset_stderr_ptr, fd, fd_map, closes, pipebuf, shutdown_ecb,
                sigchld, child_pid, child, grand, term, sel, wr, con, stops, csv>>

\* part_002:121-124: fopen() returned nullptr; throwError only when asked to
\* mutant: a failed fopen() throws whatever the flag
open_throws_always(found, throwOnError) == ~found

open_throws(found, throwOnError) == ~found /\ throwOnError

\* file::open(name, mode, throwOnError): close(), then fopen()
FileOpen ==
    /\ pc = "file"
    /\ \E d \in FileObjs, throwOnError \in BOOLEAN :
         /\ file_closes[d] < MaxCloses
         /\ file_closes' = [file_closes EXCEPT ![d] = IF file_open[d] THEN @ + 1 ELSE @]
         /\ file_open' = [file_close(file_open, d) EXCEPT ![d] = args[d]]
         /\ stdin_pos' = IF d = "STDIN" THEN 0 ELSE stdin_pos
         /\ file_data' = IF d = "STDOUT" /\ args[d]
                           THEN [file_data EXCEPT ![d] = <<>>]
                           ELSE file_data
         /\ call' = [op |-> "open", this |-> d, absent |-> ~file_open[d], ret |-> 0,
                     threw |-> open_throws(args[d], throwOnError),
                     throwOnError |-> throwOnError]
         /\ pc' = IF open_throws(args[d], throwOnError) THEN "catch" ELSE "file"
    /\ FileFrame

\* file::close(): fclose() when a handle is held
FileClose ==
    /\ pc = "file"
    /\ \E d \in FileObjs :
         /\ file_closes' = [file_closes EXCEPT ![d] = IF file_open[d] THEN @ + 1 ELSE @]
         /\ file_open' = file_close(file_open, d)
         /\ call' = [op |-> "close", this |-> d, absent |-> ~file_open[d], ret |-> 0,
                     threw |-> FALSE]
    /\ UNCHANGED <<pc, stdin_pos, file_data>>
    /\ FileFrame

\* file::read(buffer, size) on the STDIN object
FileRead ==
    /\ pc = "file"
    /\ LET data == file_read(args.input, stdin_pos, BufSize)
           threw == file_not_open_throws(file_open["STDIN"])
       IN  /\ stdin_pos' = IF threw THEN stdin_pos ELSE stdin_pos + Len(data)
           /\ call' = [op |-> "read", this |-> "STDIN", absent |-> ~file_open["STDIN"],
                       ret |-> IF threw THEN 0 ELSE Len(data), threw |-> threw]
           /\ pc' = IF threw THEN "catch" ELSE "file"
    /\ UNCHANGED <<file_open, file_closes, file_data>>
    /\ FileFrame

\* file::write(buf, size) on the STDOUT object
FileWrite ==
    /\ pc = "file"
    /\ \E size \in 0..BufSize :
         LET buf == [i \in 1..size |-> OutByte(i)]
             threw == file_not_open_throws(file_open["STDOUT"])
         IN  /\ Len(file_data["STDOUT"]) + size <= MaxFile
             /\ file_data' = IF threw THEN file_data
                               ELSE [file_data EXCEPT !["STDOUT"] = @ \o buf]
             /\ call' = [op |-> "write", this |-> "STDOUT",
                         absent |-> ~file_open["STDOUT"],
                         ret |-> IF threw THEN 0 ELSE size, threw |-> threw]
             /\ pc' = IF threw THEN "catch" ELSE "file"
    /\ UNCHANGED <<file_open, file_closes, stdin_pos>>
    /\ FileFrame

NextFile ==
    \/ FileOpen
    \/ FileClose
    \/ FileRead
    \/ FileWrite
    \/ Unwind

SpecFile == InitFile /\ [][NextFile]_vars

\* ---- the wrappers on their own: common start --------------------------------
\* everything run() has not touched yet
Unstarted ==
    /\ proc = "alive"
    /\ exit_code = -1
    /\ return_code = 0
    /\ file_open = [d \in OutputDDs \cup {"STDIN"} |-> FALSE]
    /\ file_data = [d \in OutputDDs |-> <<>>]
    /\ file_closes = [d \in OutputDDs \cup {"STDIN"} |-> 0]
    /\ stdin_pos = 0
    /\ dataset_stdout_ptr = "none"
    /\ dataset_stderr_ptr = "none"
    /\ fd = [p \in Pipes |-> [s \in Sides |-> -1]]
    /\ fd_map = [i \in 0..2 |-> -1]
    /\ closes = [p \in Pipes |-> [s \in Sides |-> 0]]
    /\ pipebuf = [p \in Pipes |-> <<>>]
    /\ shutdown_ecb = 0
    /\ sigchld = [installed |-> FALSE, pending |-> FALSE]
    /\ grand = "none"
    /\ term = {}
    /\ sel = NoSel
    /\ wr = [pend |-> <<>>, count |-> 0]
    /\ con = "none"
    /\ stops = 0
    /\ call = NoCall
    /\ csv = NoCsv

NoChild == [state |-> "none", pgid |-> 0, status |-> NoStatus,
            got |-> <<>>, out |-> 0, err |-> 0]

NoArgs == [program |-> FALSE, disable_console_commands |-> TRUE,
           STDIN |-> FALSE, STDOUT |-> FALSE, STDERR |-> FALSE, input |-> <<>>]

\* ---- rkt::pipe on its own ---------------------------------------------------
\* One pipe object: constructed, its methods called in any order, destroyed
\* when the scope is left or an exception unwinds.  ::read and ::write return
\* what the kernel answers: the call's result, EINTR, or another error.
MaxEintr == 2      \* most consecutive EINTR answers to one call

PipeObj == "stdin"
Errnos == {"OK", "EINTR", "EIO"}
SeqsUpTo(S, n) == UNION {[1..k -> S] : k \in 1..n}
Last(sq) == sq[Len(sq)]

\* part_003:164 and :188: while (bytes == -1 && errno == EINTR)
\* mutant: no answer is retried
retry_on_none(e) == FALSE

retry_on(e) == e = "EINTR"

\* the kernel answers one call of the loop consumes
RECURSIVE sys_retry(_)
sys_retry(answers) ==
    IF answers = <<>> THEN <<>>
    ELSE IF retry_on(Head(answers))
           THEN <<Head(answers)>> \o sys_retry(Tail(answers))
           ELSE <<Head(answers)>>

\* part_003:158 and :182: if (!is_read_open()) throwError(...)
\* mutant: the call goes on with the closed end
pipe_not_open_quiet(open) == FALSE

pipe_not_open_throws(open) == ~open

InitPipe ==
    /\ Unstarted
    /\ args = NoArgs
    /\ pc = "pipe"
    /\ child = NoChild
    /\ child_pid = 0

PipeFrame ==
    UNCHANGED <<args, proc, exit_code, return_code, file_open, file_data,
                file_closes, stdin_pos, dataset_stdout_ptr, dataset_stderr_ptr,
                fd_map, shutdown_ecb, sigchld, child_pid, child, grand, term,
                sel, wr, con, stops, csv>>

\* pipe::pipe(): ::pipe(fd), or throwError
PipeConstruct ==
    /\ pc = "pipe"
    /\ call = NoCall
    /\ \E ok \in BOOLEAN :
         /\ fd' = IF ok THEN [fd EXCEPT ![PipeObj] = [sd \in Sides |-> PipeFd(PipeObj, sd)]]
                   ELSE fd
         /\ call' = [op |-> "pipe", side |-> -1, closed |-> FALSE, ret |-> 0,
                     threw |-> ~ok, answers |-> <<>>]
         /\ pc' = IF ok THEN "pipe" ELSE "catch"
    /\ UNCHANGED <<closes, pipebuf>>
    /\ PipeFrame

\* pipe::close(side): close_read(), close_write()
PipeClose ==
    /\ pc = "pipe"
    /\ call # NoCall
    /\ \E side \in Sides :
         LET c == pipe_close(fd, closes, PipeObj, side) IN
           /\ fd' = c.fd
           /\ closes' = c.closes
           /\ call' = [op |-> "close", side |-> side,
                       closed |-> ~pipe_is_open(fd, PipeObj, side), ret |-> 0,
                       threw |-> FALSE, answers |-> <<>>]
    /\ UNCHANGED <<pc, pipebuf>>
    /\ PipeFrame

\* pipe::close()
PipeCloseBoth ==
    /\ pc = "pipe"
    /\ call # NoCall
    /\ LET c == pipe_close_both(fd, closes, PipeObj) IN
         /\ fd' = c.fd
         /\ closes' = c.closes
    /\ call' = [op |-> "close_both", side |-> -1,
                closed |-> \A sd \in Sides : ~pipe_is_open(fd, PipeObj, sd),
                ret |-> 0, threw |-> FALSE, answers |-> <<>>]
    /\ UNCHANGED <<pc, pipebuf>>
    /\ PipeFrame

\* pipe::read(buffer, size).  ::read answers OK when the pipe holds bytes or
\* has no writer left (end of file).
PipeRead ==
    /\ pc = "pipe"
    /\ call # NoCall
    /\ IF pipe_not_open_throws(pipe_is_open(fd, PipeObj, READ))
         THEN /\ call' = [op |-> "read", side |-> READ, closed |-> TRUE, ret |-> -1,
                          threw |-> TRUE, answers |-> <<>>]
              /\ pc' = "catch"
              /\ UNCHANGED pipebuf
         ELSE \E answers \in SeqsUpTo(Errnos, MaxEintr + 1) :
                /\ sys_retry(answers) = answers
                /\ ~retry_on(Last(answers))
                /\ Last(answers) = "OK"
                     => (pipebuf[PipeObj] # <<>> \/ ~pipe_is_open(fd, PipeObj, WRITE))
                /\ pipebuf' = IF Last(answers) = "OK"
                                THEN [pipebuf EXCEPT ![PipeObj] = Drop(@, BufSize)]
                                ELSE pipebuf
                /\ call' = [op |-> "read", side |-> READ,
                            closed |-> ~pipe_is_open(fd, PipeObj, READ),
                            ret |-> IF Last(answers) = "OK"
                                      THEN Len(Take(pipebuf[PipeObj], BufSize)) ELSE -1,
                            threw |-> Last(answers) # "OK", answers |-> answers]
                /\ pc' = IF Last(answers) = "OK" THEN "pipe" ELSE "catch"
    /\ UNCHANGED <<fd, closes>>
    /\ PipeFrame

\* pipe::write(buf, size), of a buffer that fits.  ::write answers OK only
\* while the pipe has a reader.
PipeWrite ==
    /\ pc = "pipe"
    /\ call # NoCall
    /\ \E size \in 1..BufSize :
         /\ size <= Free(PipeObj)
         /\ IF pipe_not_open_throws(pipe_is_open(fd, PipeObj, WRITE))
              THEN /\ call' = [op |-> "write", side |-> WRITE, closed |-> TRUE,
                               ret |-> -1, threw |-> TRUE, answers |-> <<>>]
                   /\ pc' = "catch"
                   /\ UNCHANGED pipebuf
              ELSE \E answers \in SeqsUpTo(Errnos, MaxEintr + 1) :
                     /\ sys_retry(answers) = answers
                     /\ ~retry_on(Last(answers))
                     /\ Last(answers) = "OK" => pipe_is_open(fd, PipeObj, READ)
                     /\ pipebuf' = IF Last(answers) = "OK"
                                     THEN [pipebuf EXCEPT ![PipeObj] =
                                             @ \o [i \in 1..size |-> OutByte(i)]]
                                     ELSE pipebuf
                     /\ call' = [op |-> "write", side |-> WRITE,
                                 closed |-> ~pipe_is_open(fd, PipeObj, WRITE),
                                 ret |-> IF Last(answers) = "OK" THEN size ELSE -1,
                                 threw |-> Last(answers) # "OK", answers |-> answers]
                     /\ pc' = IF Last(answers) = "OK" THEN "pipe" ELSE "catch"
    /\ UNCHANGED <<fd, closes>>
    /\ PipeFrame

\* the scope that holds the object is left normally
PipeScopeExit ==
    /\ pc = "pipe"
    /\ call # NoCall
    /\ pc' = "return"
    /\ UNCHANGED <<fd, closes, pipebuf, call>>
    /\ PipeFrame

NextPipe ==
    \/ PipeConstruct
    \/ PipeClose
    \/ PipeCloseBoth
    \/ PipeRead
    \/ PipeWrite
    \/ PipeScopeExit
    \/ Unwind

SpecPipe == InitPipe /\ [][NextPipe]_vars

\* ---- make_env() on its own --------------------------------------------------
InitEnv ==
    /\ Unstarted
    /\ args \in [program : {FALSE}, disable_console_commands : {TRUE},
                 STDIN : {FALSE}, STDOUT : {FALSE}, STDERR : {FALSE}, input : {<<>>},
                 STDENV : [present : {TRUE},
                           lines : UNION {[1..k -> Lines] : k \in 0..MaxLines}]
                          \cup {[present |-> FALSE, lines |-> <<>>]}]
    /\ pc = "env"
    /\ child = NoChild
    /\ child_pid = 0

NextEnv == MakeEnv

SpecEnv == InitEnv /\ [][NextEnv]_vars

\* ---- checked_waitpid() on its own ---------------------------------------------
\* The spawned child and the callers of syscalls::checked_waitpid(): run()
\* after its loop, and any further caller.  The handler only POSTs.
MaxWaits == 3      \* most calls of checked_waitpid
WNOHANG == 1
WaitOptions == {0, WNOHANG}

Waits == IF call.op = "waitpid" THEN call.nth ELSE 0

\* ::waitpid(pid, &status, options): the pid reaped, 0 when WNOHANG finds the
\* child running, -1 (ECHILD) when the child has been reaped before
sys_waitpid(state) ==
    IF state = "zombie" THEN ChildPid ELSE IF state = "running" THEN 0 ELSE -1

\* syscalls.hpp:67-71
checked_waitpid_throws(rc) == rc = -1

InitWait ==
    /\ proc = "alive"
    /\ exit_code = -1
    /\ return_code = 0
    /\ file_open = [d \in OutputDDs \cup {"STDIN"} |-> FALSE]
    /\ file_data = [d \in OutputDDs |-> <<>>]
    /\ file_closes = [d \in OutputDDs \cup {"STDIN"} |-> 0]
    /\ stdin_pos = 0
    /\ dataset_stdout_ptr = "none"
    /\ dataset_stderr_ptr = "none"
    /\ fd = [p \in Pipes |-> [sd \in Sides |-> -1]]
    /\ fd_map = [i \in 0..2 |-> -1]
    /\ closes = [p \in Pipes |-> [sd \in Sides |-> 0]]
    /\ pipebuf = [p \in Pipes |-> <<>>]
    /\ shutdown_ecb = 0
    /\ sigchld = [installed |-> TRUE, pending |-> FALSE]
    /\ grand = "none"
    /\ term = {}
    /\ sel = NoSel
    /\ wr = [pend |-> <<>>, count |-> 0]
    /\ con = "none"
    /\ stops = 0
    /\ call = NoCall
    /\ csv = NoCsv
    /\ args \in [program : BOOLEAN, disable_console_commands : {TRUE},
                 STDIN : {FALSE}, STDOUT : {FALSE}, STDERR : {FALSE}, input : {<<>>}]
    /\ pc = "wait"
    /\ child = [NoChild EXCEPT !.state = "running", !.pgid = spawn_pgid(args.program)]
    /\ child_pid = ChildPid

WaitFrame ==
    UNCHANGED <<args, proc, exit_code, file_open, file_data, file_closes, stdin_pos,
                dataset_stdout_ptr, dataset_stderr_ptr, fd, fd_map, closes, pipebuf,
                shutdown_ecb, sigchld, child_pid, grand, term, sel, wr, con, stops, csv>>

\* main.cpp:302-311 around one call: a reaped status is normalised and kept
Waitpid ==
    /\ pc = "wait"
    /\ Waits < MaxWaits
    /\ \E options \in WaitOptions :
         LET rc == sys_waitpid(child.state) IN
           /\ rc = 0 => options = WNOHANG
           /\ call' = [op |-> "waitpid", options |-> options, nth |-> Waits + 1,
                       ret |-> rc, threw |-> checked_waitpid_throws(rc)]
           /\ IF checked_waitpid_throws(rc)
                THEN /\ pc' = "catch"
                     /\ UNCHANGED <<child, return_code>>
                ELSE /\ pc' = pc
                     /\ IF rc = ChildPid
                          THEN /\ child' = [child EXCEPT !.state = "reaped"]
                               /\ return_code' = normalize(child.status)
                          ELSE UNCHANGED <<child, return_code>>
    /\ WaitFrame

\* main.cpp:311: return return_code
WaitReturn ==
    /\ pc = "wait"
    /\ child.state = "reaped"
    /\ pc' = "return"
    /\ UNCHANGED <<call, child, return_code>>
    /\ WaitFrame

NextWait == ChildExit \/ HandleSigchld \/ Waitpid \/ WaitReturn \/ Unwind

SpecWait == InitWait /\ [][NextWait]_vars

\* ---- rkt::c_string_vector on its own -------------------------------------------
\* Two objects a and b.  A duplicated string is the number of the strdup call
\* that made it; csv.data is each object's vector of pointers, csv.frees the
\* pointers handed to std::free in order, csv.allocs the count of strdup calls.
MaxStrings == 3    \* most strings duplicated

VecObjs == {"a", "b"}

\* c_string_vector.hpp:67-80: other is const, so std::move(other.data) is a
\* const rvalue and std::vector's copy constructor / copy assignment is
\* chosen: the destination gets a copy of the pointers, the source keeps its own
moved_to(src_data) == src_data
moved_from(src_data) == src_data

InitVec ==
    /\ Unstarted
    /\ args = NoArgs
    /\ pc = "vec"
    /\ child = NoChild
    /\ child_pid = 0

VecFrame ==
    UNCHANGED <<args, pc, proc, exit_code, return_code, file_open, file_data,
                file_closes, stdin_pos, dataset_stdout_ptr, dataset_stderr_ptr,
                fd, fd_map, closes, pipebuf, shutdown_ecb, sigchld, child_pid,
                child, grand, term, sel, wr, con, stops, call>>

\* c_string_vector() = default
VecConstruct ==
    /\ pc = "vec"
    /\ \E o \in VecObjs :
         /\ csv.state[o] = "none"
         /\ csv' = [csv EXCEPT !.state[o] = "live"]
    /\ VecFrame

\* push_back(const char*): data.push_back(checked_strdup(s))
VecPushBack ==
    /\ pc = "vec"
    /\ csv.allocs < MaxStrings
    /\ \E o \in VecObjs :
         /\ csv.state[o] = "live"
         /\ csv' = [csv EXCEPT !.data[o] = Append(@, csv.allocs + 1),
                               !.allocs = @ + 1]
    /\ VecFrame

\* c_string_vector(const c_string_vector&& other)
VecMoveConstruct ==
    /\ pc = "vec"
    /\ \E dst \in VecObjs, src \in VecObjs :
         /\ dst # src
         /\ csv.state[dst] = "none"
         /\ csv.state[src] = "live"
         /\ csv' = [csv EXCEPT !.state[dst] = "live",
                               !.data[dst] = moved_to(csv.data[src]),
                               !.data[src] = moved_from(csv.data[src])]
    /\ VecFrame

\* operator=(const c_string_vector&& other): the pointers the destination
\* held are overwritten, not freed
VecMoveAssign ==
    /\ pc = "vec"
    /\ \E dst \in VecObjs, src \in VecObjs :
         /\ dst # src
         /\ csv.state[dst] = "live"
         /\ csv.state[src] = "live"
         /\ csv' = [csv EXCEPT !.data[dst] = moved_to(csv.data[src]),
                               !.data[src] = moved_from(csv.data[src])]
    /\ VecFrame

\* ~c_string_vector(): std::free on every pointer, then data.clear()
VecDestroy ==
    /\ pc = "vec"
    /\ \E o \in VecObjs :
         /\ csv.state[o] = "live"
         /\ csv' = [csv EXCEPT !.state[o] = "destroyed",
                               !.frees = @ \o csv.data[o],
                               !.data[o] = <<>>]
    /\ VecFrame

NextVec == VecConstruct \/ VecPushBack \/ VecMoveConstruct \/ VecMoveAssign \/ VecDestroy

SpecVec == InitVec /\ [][NextVec]_vars

\* ---- rkt::pipe: moves ----------------------------------------------------------
\* rkt::pipe a, b; then close, a = std::move(b) (and the like, a = std::move(a)
\* included) in any order, and once rkt::pipe c(std::move(x)); the scope is
\* then left.  a, b, c are the objects named stdin, stdout, stderr; closes
\* counts the ::close calls each object makes.
MovedTo == "stderr"
MovePcs == {"move", "move3"}
LivePipes == IF pc = "move3" THEN Pipes ELSE Pipes \ {MovedTo}
ClosedPipe == [sd \in Sides |-> -1]

\* part_003:60-65 and 76-79: other.fd[0] = -1; other.fd[1] = -1
\* mutant: the source keeps its descriptors
moved_from_fd_kept(f) == f

moved_from_fd(f) == -1

pipe_move(fdv, dst, src) ==
    [fdv EXCEPT ![dst] = fdv[src],
                ![src] = [sd \in Sides |-> moved_from_fd(fdv[src][sd])]]

InitMove ==
    /\ proc = "alive"
    /\ exit_code = -1
    /\ return_code = 0
    /\ file_open = [d \in OutputDDs \cup {"STDIN"} |-> FALSE]
    /\ file_data = [d \in OutputDDs |-> <<>>]
    /\ file_closes = [d \in OutputDDs \cup {"STDIN"} |-> 0]
    /\ stdin_pos = 0
    /\ dataset_stdout_ptr = "none"
    /\ dataset_stderr_ptr = "none"
    /\ fd = [p \in Pipes |-> IF p = MovedTo THEN ClosedPipe
                              ELSE [sd \in Sides |-> PipeFd(p, sd)]]
    /\ fd_map = [i \in 0..2 |-> -1]
    /\ closes = [p \in Pipes |-> [sd \in Sides |-> 0]]
    /\ pipebuf = [p \in Pipes |-> <<>>]
    /\ shutdown_ecb = 0
    /\ sigchld = [installed |-> FALSE, pending |-> FALSE]
    /\ grand = "none"
    /\ term = {}
    /\ sel = NoSel
    /\ wr = [pend |-> <<>>, count |-> 0]
    /\ con = "none"
    /\ stops = 0
    /\ call = NoCall
    /\ csv = NoCsv
    /\ args = NoArgs
    /\ pc = "move"
    /\ child = NoChild
    /\ child_pid = 0

MoveFrame ==
    UNCHANGED <<args, proc, exit_code, return_code, file_open, file_data,
                file_closes, stdin_pos, dataset_stdout_ptr, dataset_stderr_ptr,
                fd_map, pipebuf, shutdown_ecb, sigchld, child_pid, child, grand,
                term, sel, wr, con, stops, csv>>

\* pipe(pipe&& other)
PipeMoveConstruct ==
    /\ pc = "move"
    /\ \E src \in LivePipes :
         /\ fd' = pipe_move(fd, MovedTo, src)
         /\ call' = [op |-> "move_construct", dst |-> MovedTo, src |-> src,
                     fd |-> fd, closes |-> closes]
    /\ pc' = "move3"
    /\ UNCHANGED closes
    /\ MoveFrame

\* operator=(pipe&& other)
PipeMoveAssign ==
    /\ pc \in MovePcs
    /\ \E dst \in LivePipes, src \in LivePipes :
         /\ IF dst # src
              THEN LET c == pipe_close_both(fd, closes, dst) IN
                     /\ fd' = pipe_move(c.fd, dst, src)
                     /\ closes' = c.closes
              ELSE UNCHANGED <<fd, closes>>
         /\ call' = [op |-> "move_assign", dst |-> dst, src |-> src,
                     fd |-> fd, closes |-> closes]
    /\ UNCHANGED pc
    /\ MoveFrame

\* close_read(), close_write() on any of the objects
PipeCloseEnd ==
    /\ pc \in MovePcs
    /\ \E p \in LivePipes, side \in Sides :
         LET c == pipe_close(fd, closes, p, side) IN
           /\ fd' = c.fd
           /\ closes' = c.closes
           /\ call' = [op |-> "close", dst |-> p, src |-> p,
                       fd |-> fd, closes |-> closes]
    /\ UNCHANGED pc
    /\ MoveFrame

\* the scope of the objects is left: ~pipe() on each follows
MoveScopeExit ==
    /\ pc \in MovePcs
    /\ pc' = "return"
    /\ UNCHANGED <<fd, closes, call>>
    /\ MoveFrame

NextMove ==
    PipeMoveConstruct \/ PipeMoveAssign \/ PipeCloseEnd \/ MoveScopeExit \/ Unwind

SpecMove == InitMove /\ [][NextMove]_vars

\* ==== properties ===========================================================
LoopPcs == {"select", "service", "stdin_write", "outputs"}
PostLoopPcs == {"reap", "return"}
RanToReturn == proc = "exited" /\ child.state = "reaped"

\* what selectex() would find ready, stated on the pipes themselves
StdinInterestReady == fd["stdin"][WRITE] # -1 /\ Len(pipebuf["stdin"]) < PipeCap
OutputReady(p) == pipebuf[p] # <<>>
NoneReady == ~StdinInterestReady /\ ~OutputReady("stdout") /\ ~OutputReady("stderr")

\* bytes the child has produced on a channel, and those read from its pipe
OutProduced == [k \in 1..child.out |-> OutByte(k)]
ErrProduced == [k \in 1..child.err |-> ErrByte(k)]
OutRead == SubSeq(OutProduced, 1, child.out - Len(pipebuf["stdout"]))
ErrRead == SubSeq(ErrProduced, 1, child.err - Len(pipebuf["stderr"]))
StdoutDest == IF args.STDOUT THEN "STDOUT" ELSE "SYSOUT"
StderrDest == IF args.STDERR THEN "STDERR" ELSE "SYSOUT"

\* C1 (as stated): once the shutdown ECB is posted the very next return of
\* the multiplex wait ends the loop, and after the loop has ended no dataset
\* is read or written.
C1_NextWaitStops ==
    [][/\ (pc = "select" /\ shutdown_ecb = 1 /\ pc' # "select") => pc' = "reap"
       /\ (pc \in PostLoopPcs) => (file_data' = file_data /\ stdin_pos' = stdin_pos)]_vars

\* C1 (amended): with the shutdown ECB posted the wait does not block; the
\* first wait that finds no descriptor ready ends the loop, a wait that finds
\* one ready starts another iteration; after the loop has ended no dataset is
\* read or written.
C1_SignalOnlyWaitStops ==
    [][/\ (pc = "select" /\ shutdown_ecb = 1 /\ Alive) => ENABLED Select
       /\ (pc = "select" /\ shutdown_ecb = 1 /\ pc' # "select")
            => (pc' = "reap" <=> NoneReady)
       /\ (pc \in PostLoopPcs \/ pc = "done")
            => (file_data' = file_data /\ stdin_pos' = stdin_pos)]_vars

C1_Witness ==
    /\ pc = "reap"
    /\ sel.rc = 0
    /\ shutdown_ecb = 1
    /\ stdin_pos > 0
    /\ fd["stdin"][WRITE] # -1

\* C2: the loop is left for the code after it only from the multiplex wait,
\* only when that returned 0 with the shutdown ECB posted and no descriptor
\* ready; a wait that reported a descriptor goes on to service it.
C2_OnlyExit ==
    [][/\ (pc' = "reap" /\ pc # "reap")
            => (pc = "select" /\ sel'.rc = 0 /\ shutdown_ecb = 1 /\ NoneReady)
       /\ (pc = "select" /\ pc' # "select" /\ ~NoneReady)
            => (pc' = "service" /\ sel'.rc > 0)]_vars

C2_Witness ==
    /\ pc = "select"
    /\ shutdown_ecb = 1
    /\ ~NoneReady
    /\ child.state = "zombie"

\* C3: between iterations the bytes written into the child's stdin pipe (those
\* the child has read, then those still in the pipe) are the bytes read from
\* the input dataset, in order.
C3_InputForwarded ==
    pc = "select" => child.got \o pipebuf["stdin"] = SubSeq(args.input, 1, stdin_pos)

\* C4: the stdout bytes in the stdout destination are the bytes read from the
\* child's stdout pipe, in order, and no other dataset holds a stdout byte;
\* a STDOUT dataset that opened holds nothing else.  The same for stderr.
C4_OutputTransparent ==
    /\ SelectSeq(file_data[StdoutDest], IsOutByte) = OutRead
    /\ SelectSeq(file_data[StderrDest], IsErrByte) = ErrRead
    /\ args.STDOUT => file_data["STDOUT"] = OutRead
    /\ args.STDERR => file_data["STDERR"] = ErrRead
    /\ \A d \in OutputDDs \ {StdoutDest} : SelectSeq(file_data[d], IsOutByte) = <<>>
    /\ \A d \in OutputDDs \ {StderrDest} : SelectSeq(file_data[d], IsErrByte) = <<>>

C4_Witness ==
    /\ ~args.STDOUT
    /\ args.STDERR
    /\ Len(file_data["SYSOUT"]) >= 2
    /\ Len(file_data["STDERR"]) >= 1
    /\ child.state = "running"

\* C5: ::close is called at most once on the stdin pipe's write descriptor;
\* exactly once from end-of-input on, and exactly once by the time the pipe
\* object has been destroyed.
EofSeen == pc \in LoopPcs /\ ~file_open["STDIN"]
C5_WriteEndClosedOnce ==
    /\ closes["stdin"][WRITE] <= 1
    /\ EofSeen => closes["stdin"][WRITE] = 1 /\ fd["stdin"][WRITE] = -1
    /\ (pc = "done" /\ fd_map[0] # -1) => closes["stdin"][WRITE] = 1

C5_Witness ==
    /\ pc = "done"
    /\ exit_code # ERROR_EXIT
    /\ ~args.STDIN \/ stdin_pos = Len(args.input)
    /\ Len(args.input) > BufSize
    /\ child.got = args.input
    /\ closes["stdin"][WRITE] = 1
    /\ file_closes["STDIN"] = 1

\* a STOP command handled while the child runs, blocked reading an empty
\* stdin pipe
StopStep == stops' = stops + 1
ChildBlockedOnStdin == child.state = "running" /\ pipebuf["stdin"] = <<>>

\* C6: a STOP while the child is blocked reading stdin sends SIGTERM to the
\* child and every member of its process group, the supervisor goes on to
\* reap the child, and when it has exited its exit code is 0.
C6_StopScenario ==
    [][/\ (StopStep /\ ChildBlockedOnStdin)
            => /\ proc' = "alive"
               /\ "child" \in term'
               /\ grand = "running" => "grand" \in term'
       /\ (pc' = "done" /\ "child" \in term' /\ child'.status \in TermStatus)
            => exit_code' = 0]_vars

\* C7: the exit code after a run that reaped the child: 0 for a normal exit
\* with status 0, 0 for a child ended by the operator's SIGTERM, the child's
\* own code for any other normal exit.
C7_ExitCode ==
    RanToReturn =>
        /\ child.status = [exited |-> TRUE, code |-> 0] => exit_code = 0
        /\ ("child" \in term /\ ~child.status.exited /\ child.status.code = SIGTERM)
              => exit_code = 0
        /\ (child.status.exited /\ child.status.code = 128 + 15) => exit_code = 0
        /\ (child.status.exited /\ child.status.code \notin {0, 128 + 15})
              => exit_code = child.status.code

C7_Witness ==
    /\ RanToReturn
    /\ "child" \in term
    /\ child.status = [exited |-> TRUE, code |-> 128 + 15]
    /\ exit_code = 0

\* C8: when the child wrote its output to stdout only and exited with status
\* 0 (no STOP was issued), a supervisor that has exited has put exactly that
\* output into the stdout destination, nothing into the stderr destination,
\* and its exit code is 0.
C8_EchoScenario ==
    (/\ proc = "exited"
     /\ child.status = [exited |-> TRUE, code |-> 0]
     /\ child.state = "reaped"
     /\ child.err = 0
     /\ term = {})
    => /\ file_data[StdoutDest] = OutProduced
       /\ \A d \in OutputDDs \ {StdoutDest} : file_data[d] = <<>>
       /\ exit_code = 0

C8_Witness ==
    /\ proc = "exited"
    /\ args.program
    /\ child.status = [exited |-> TRUE, code |-> 0]
    /\ child.out = 2
    /\ child.err = 0
    /\ term = {}
    /\ file_data[StdoutDest] = <<OutByte(1), OutByte(2)>>
    /\ exit_code = 0

\* C9: when kill_process has signalled the running child's group and returned,
\* the child has been waited for and reaped.
C9_TerminateReaps ==
    [][(StopStep /\ child.state = "running" /\ "child" \in term' /\ proc' = "alive")
          => child'.state = "reaped"]_vars

\* C10: a spawned child is the leader of its own process group, whose id is
\* the child's pid, in both spawn modes.
C10_OwnProcessGroup ==
    child.state # "none" => (child.pgid = child_pid /\ child.pgid # SuperPgid)

\* C11: while the relay loop runs the parent holds no open descriptor,
\* original or duplicate, on the read end of the stdin pipe or on the write
\* end of the stdout or stderr pipe.
C11_ParentHoldsNoChildEnd ==
    pc \in LoopPcs =>
        /\ fd["stdin"][READ] = -1
        /\ fd["stdout"][WRITE] = -1
        /\ fd["stderr"][WRITE] = -1
        /\ \A i \in 0..2 : fd_map[i] = -1

\* C12: once the shutdown ECB is posted it stays posted in every later state
\* (the loop's waits included); the handler's post leaves it posted whatever
\* it was, and a second post gives what the first gave.
C12_ShutdownMonotonic ==
    [][/\ shutdown_ecb = 1 => shutdown_ecb' = 1
       /\ (sigchld.pending /\ ~sigchld'.pending) => shutdown_ecb' = 1
       /\ post_shutdown_ecb(post_shutdown_ecb(shutdown_ecb))
            = post_shutdown_ecb(shutdown_ecb)]_vars

C12_Witness ==
    /\ pc = "service"
    /\ sel.rc > 0
    /\ shutdown_ecb = 1
    /\ child.state = "zombie"
    /\ stdin_pos > BufSize

\* kill() of the STOP handler finds no process in the addressed group
KillFails == GroupMembers(kill_process_target(child_pid)) = {}

\* C13: a failure of the listener (the console primitive returns an error, or
\* the kill of a STOP fails) ends the listener and nothing else: the process
\* stays alive and the main thread stays where it was.  Stated for a named
\* program.
C13_ListenerFailureContained ==
    [][(/\ args.program
        /\ con = "listening"
        /\ con' = "exited" \/ (StopStep /\ KillFails))
          => (proc' = "alive" /\ pc' = pc /\ return_code' = return_code)]_vars

\* C14: a STOP handled after the child has been reaped changes nothing of the
\* run: the process stays as it was, with its position and its return code.
C14_DoubleTerminationTolerated ==
    [][(StopStep /\ child.state = "reaped")
          => (proc' = proc /\ pc' = pc /\ return_code' = return_code)]_vars

C16_AbsentInputIsEof ==
    [][/\ (pc = "open" /\ ~args.STDIN /\ file_open'["SYSOUT"]) => pc' = "pipes"
       /\ (/\ pc = "service"
           /\ ~args.STDIN
           /\ "stdin" \in sel.writefds
           /\ fd["stdin"][WRITE] # -1
           /\ pc' # pc)
            => (fd'["stdin"][WRITE] = -1 /\ stdin_pos' = stdin_pos)]_vars

\* a setup error: an exception is unwinding and no child was spawned
SetupPcs == {"open", "pipes", "signals", "console", "env", "spawn"}
SetupError == pc = "catch" /\ child.state = "none"
NoRelayDone ==
    /\ sel = NoSel
    /\ stdin_pos = 0
    /\ \A d \in OutputDDs : file_data[d] = <<>>
    /\ \A p \in Pipes : pipebuf[p] = <<>>

\* C18: the loop is entered only after every setup step succeeded; a setup
\* error is followed by no iteration of the loop, and the process then exits
\* with code 12.
C18_SetupErrorFatal ==
    [][/\ (pc \in SetupPcs /\ pc' # pc) => pc' \in SetupPcs \cup {"catch", "select"}
       /\ (pc \in SetupPcs /\ pc' = "select")
            => /\ pc = "spawn"
               /\ file_open["SYSOUT"] /\ file_open["STDIN"]
               /\ \A i \in 0..2 : fd_map[i] # -1
               /\ sigchld.installed
               /\ child'.state = "running"
       /\ SetupError => NoRelayDone
       /\ (SetupError /\ pc' # pc)
            => (pc' = "done" /\ proc' = "exited" /\ exit_code' = ERROR_EXIT
                /\ NoRelayDone')]_vars

C18_Witness ==
    /\ pc = "done"
    /\ proc = "exited"
    /\ exit_code = 12
    /\ child.state = "none"
    /\ fd_map[0] # -1
    /\ sigchld.installed
    /\ con = "listening"

\* an error of the loop: an exception is unwinding after the child was spawned
LoopError == pc = "catch" /\ child.state # "none"

\* C19: after an I/O failure in the loop the main thread performs no further
\* relay I/O (no dataset is read or written, the stdin pipe gets no byte, no
\* output pipe loses one); its next step closes every pipe end and dataset
\* still open and the process exits with code 12.
C19_IoFailureFatal ==
    [][/\ (pc \in LoopPcs /\ pc' = "catch")
            => (file_data' = file_data /\ stdin_pos' = stdin_pos /\ pipebuf' = pipebuf)
       /\ (pc \in {"catch", "done"})
            => /\ pc' \in {pc, "done"}
               /\ file_data' = file_data
               /\ stdin_pos' = stdin_pos
               /\ Len(pipebuf'["stdin"]) <= Len(pipebuf["stdin"])
               /\ Len(pipebuf'["stdout"]) >= Len(pipebuf["stdout"])
               /\ Len(pipebuf'["stderr"]) >= Len(pipebuf["stderr"])
       /\ (LoopError /\ pc' = "done")
            => /\ \A p \in Pipes : \A sd \in Sides : fd'[p][sd] = -1
               /\ \A d \in DOMAIN file_open : ~file_open'[d]
               /\ file_closes'["SYSOUT"] = 1
               /\ proc' = "exited"
               /\ exit_code' = ERROR_EXIT]_vars

C19_Witness ==
    /\ pc = "done"
    /\ exit_code = 12
    /\ child.state = "running"
    /\ stdin_pos > 0
    /\ pipebuf["stdout"] # <<>>
    /\ fd_map[0] # -1

\* C20: when the SIGCHLD handler has run, no exited child is left unreaped,
\* and the shutdown ECB is posted.
C20_HandlerReaps ==
    [][(sigchld.pending /\ ~sigchld'.pending)
          => (child'.state # "zombie" /\ shutdown_ecb' = 1)]_vars

\* C17: a read or a write called on a file object that holds no handle does
\* not throw: the read returns 0 (end-of-stream), the write returns without
\* writing.
C17_AbsentNeverFaults ==
    (call.op \in {"read", "write"} /\ call.absent)
        => (~call.threw /\ call.ret = 0 /\ pc # "catch")

\* C29: when the STDOUT dataset is absent its object stays unopened and
\* unwritten for the whole run (no fclose on it either), the channel's pointer
\* designates SYSOUT and the stdout bytes relayed are in SYSOUT; the same for
\* STDERR.
C29_AbsentPrimaryUntouched ==
    /\ ~args.STDOUT =>
          /\ ~file_open["STDOUT"]
          /\ file_data["STDOUT"] = <<>>
          /\ file_closes["STDOUT"] = 0
          /\ dataset_stdout_ptr \in {"none", "SYSOUT"}
          /\ SelectSeq(file_data["SYSOUT"], IsOutByte) = OutRead
    /\ ~args.STDERR =>
          /\ ~file_open["STDERR"]
          /\ file_data["STDERR"] = <<>>
          /\ file_closes["STDERR"] = 0
          /\ dataset_stderr_ptr \in {"none", "SYSOUT"}
          /\ SelectSeq(file_data["SYSOUT"], IsErrByte) = ErrRead

C29_Witness ==
    /\ ~args.STDOUT
    /\ ~args.STDERR
    /\ pc = "done"
    /\ exit_code = 0
    /\ \E i \in 1..Len(file_data["SYSOUT"]) : IsOutByte(file_data["SYSOUT"][i])
    /\ \E i \in 1..Len(file_data["SYSOUT"]) : IsErrByte(file_data["SYSOUT"][i])

\* C27: an open of a dataset the job step lacks leaves the object unopened;
\* it throws when throwOnError is true and returns normally when it is false.
C27_OpenMissing ==
    (call.op = "open" /\ ~args[call.this])
        => /\ ~file_open[call.this]
           /\ call.threw <=> call.throwOnError
           /\ call.throwOnError <=> pc \in {"catch", "done"}

C27_Witness ==
    /\ call.op = "open"
    /\ call.this = "STDOUT"
    /\ ~args.STDOUT
    /\ ~call.throwOnError
    /\ ~call.threw
    /\ pc = "file"
    /\ ~file_open["STDOUT"]

\* C28: each fclose() is made on a handle that is held and the handle is given
\* up with it (so no stream is closed twice); a close() on an object without
\* a handle calls no fclose(), changes nothing and does not throw; when the
\* objects have been destroyed no stream is left open.
C28_CloseIdempotent ==
    [][/\ \A d \in DOMAIN file_open :
            /\ file_closes'[d] \in {file_closes[d], file_closes[d] + 1}
            /\ file_closes'[d] = file_closes[d] + 1 => file_open[d]
            /\ (file_open[d] /\ call'.op \in {"open", "close"} /\ call'.this = d
                   /\ call' # call)
                 => file_closes'[d] = file_closes[d] + 1
            /\ (file_open[d] /\ ~file_open'[d]) => file_closes'[d] = file_closes[d] + 1
       /\ (call'.op = "close" /\ call' # call)
            => /\ ~call'.threw
               /\ pc' = pc
               /\ ~file_open'[call'.this]
               /\ call'.absent
                    => (file_open' = file_open /\ file_closes' = file_closes
                        /\ file_data' = file_data /\ stdin_pos' = stdin_pos)
       /\ pc' = "done" => \A d \in DOMAIN file_open : ~file_open'[d]]_vars

C28_Witness ==
    /\ call.op = "close"
    /\ call.absent
    /\ call.this = "STDIN"
    /\ file_closes["STDIN"] = 2
    /\ file_open["STDOUT"]
    /\ pc = "file"

\* C24: an end of the pipe object that has been closed is closed in every
\* later state; a read called with the read end closed, and a write called
\* with the write end closed, throw and leave the pipe as it was.
C24_ClosedStaysClosed ==
    [][/\ \A sd \in Sides :
            (fd[PipeObj][sd] = -1 /\ closes[PipeObj][sd] > 0) => fd'[PipeObj][sd] = -1
       /\ (call' # call /\ call'.op = "read" /\ fd[PipeObj][READ] = -1)
            => (call'.threw /\ call'.answers = <<>> /\ pipebuf' = pipebuf
                /\ pc' = "catch")
       /\ (call' # call /\ call'.op = "write" /\ fd[PipeObj][WRITE] = -1)
            => (call'.threw /\ call'.answers = <<>> /\ pipebuf' = pipebuf
                /\ pc' = "catch")]_vars

C24_Witness ==
    /\ call.op = "write"
    /\ call.closed
    /\ call.threw
    /\ closes[PipeObj][WRITE] = 1
    /\ fd[PipeObj][READ] # -1
    /\ pipebuf[PipeObj] # <<>>
    /\ pc = "catch"

\* C25: ::close is called at most once on each descriptor of the pipe object:
\* a close of an end already closed calls none, a close of an open end calls
\* one, and destruction closes exactly the ends still open, so that both have
\* been closed exactly once when the object is gone.
C25_EachEndClosedOnce ==
    [][\A sd \in Sides :
         /\ closes'[PipeObj][sd] <= 1
         /\ fd[PipeObj][sd] = -1 => closes'[PipeObj][sd] = closes[PipeObj][sd]
         /\ (fd[PipeObj][sd] # -1 /\ fd'[PipeObj][sd] = -1)
              => closes'[PipeObj][sd] = closes[PipeObj][sd] + 1
         /\ (fd[PipeObj][sd] # -1 /\ fd'[PipeObj][sd] # -1)
              => closes'[PipeObj][sd] = closes[PipeObj][sd]
         /\ pc' = "done" => fd'[PipeObj][sd] = -1
         /\ (pc' = "done" /\ call'.op # "pipe") => closes'[PipeObj][sd] = 1]_vars

C25_Witness ==
    /\ pc = "done"
    /\ call.op = "close"
    /\ call.side = READ
    /\ call.closed
    /\ closes[PipeObj][READ] = 1
    /\ closes[PipeObj][WRITE] = 1
    /\ exit_code = 0

\* C26: a read or write on an open end consumes every EINTR answer of the
\* kernel and returns on the first other answer: normally when that is the
\* call's result, by throwing when it is an error; EINTR is never what the
\* caller gets.
C26_RetryOnEintr ==
    (call.op \in {"read", "write"} /\ ~call.closed)
        => LET n == Len(call.answers) IN
             /\ n >= 1
             /\ \A i \in 1..(n - 1) : call.answers[i] = "EINTR"
             /\ call.answers[n] # "EINTR"
             /\ call.threw <=> call.answers[n] # "OK"
             /\ call.threw <=> call.ret = -1
             /\ call.threw => pc \in {"catch", "done"}

C26_Witness ==
    /\ call.op = "read"
    /\ call.answers = <<"EINTR", "EINTR", "OK">>
    /\ call.ret = 2
    /\ ~call.threw
    /\ pc = "pipe"

\* the override lines that count, stated on the dataset: each line without
\* its leading blanks, unless that leaves nothing or a line starting with #
RECURSIVE Trimmed(_)
Trimmed(l) == IF l = <<>> THEN <<>> ELSE IF Head(l) = " " THEN Trimmed(Tail(l)) ELSE l
IsEffective(l) == l # <<>> /\ l[1] # "#"
EffectiveLines ==
    IF args.STDENV.present
      THEN SelectSeq([i \in 1..Len(args.STDENV.lines) |-> Trimmed(args.STDENV.lines[i])],
                     IsEffective)
      ELSE <<>>
IsOverride(l) == Len(l) >= 2 /\ l[1] = "S" /\ l[2] = "="
Overridden == \E i \in 1..Len(EffectiveLines) : IsOverride(EffectiveLines[i])
CountIn(sq, e) == Cardinality({i \in 1..Len(sq) : sq[i] = e})

\* C22: the _BPX_SHAREAS=MUST default is appended (as the last entry before
\* the terminator) exactly when no effective override line begins with
\* _BPX_SHAREAS=; when one does, every such line is in the environment and
\* MUST is there only as often as the dataset itself says it.
C22_ShareasDefault ==
    call.op = "make_env" =>
        LET env == call.ret IN
          /\ ~Overridden => (env[Len(env) - 1] = ShareMust /\ CountIn(env, ShareMust) = 1)
          /\ Overridden =>
                /\ \A i \in 1..Len(EffectiveLines) :
                      IsOverride(EffectiveLines[i])
                        => CountIn(env, EffectiveLines[i])
                             = CountIn(EffectiveLines, EffectiveLines[i])
                /\ CountIn(env, ShareMust) = CountIn(EffectiveLines, ShareMust)

C22_Witness ==
    /\ call.op = "make_env"
    /\ args.STDENV.present
    /\ args.STDENV.lines = << <<"#", "S", "=">>, <<"S", "=", "N">> >>
    /\ CountIn(call.ret, <<"S", "=", "N">>) = 1
    /\ CountIn(call.ret, ShareMust) = 0

\* C22 as stated: _BPX_SHAREAS=MUST is in the environment exactly when no
\* effective override line begins with _BPX_SHAREAS=.  An explicit
\* _BPX_SHAREAS=MUST line is an override and is in the environment.
C22_MustExactlyWhenNoOverride ==
    call.op = "make_env" => (CountIn(call.ret, ShareMust) > 0 <=> ~Overridden)

\* C23: the environment is the fixed defaults, HOME and PWD, the effective
\* override lines in file order, the _BPX_SHAREAS default unless overridden,
\* and one terminator, in this order; without the dataset the call succeeds
\* with no override line.
C23_EnvOrder ==
    call.op = "make_env" =>
        /\ ~call.threw
        /\ call.ret = EnvDefaults
                        \o << <<"HOME=", HomeDir>>, <<"PWD=", HomeDir>> >>
                        \o EffectiveLines
                        \o (IF Overridden THEN <<>> ELSE <<ShareMust>>)
                        \o <<NullPtr>>
        /\ CountIn(call.ret, NullPtr) = 1
        /\ ~args.STDENV.present => Len(call.ret) = Len(EnvDefaults) + 4

C23_Witness ==
    /\ call.op = "make_env"
    /\ args.STDENV.present
    /\ args.STDENV.lines = << <<" ", " ">>, <<" ", "#", "N">> , <<>> >>
         \/ args.STDENV.lines = << <<" ", "#", "N">>, <<" ", " ", "N">> >>
    /\ call.ret[Len(EnvDefaults) + 3] = <<"N">>
    /\ Len(call.ret) = Len(EnvDefaults) + 5

Holds(o, ptr) == \E i \in 1..Len(csv.data[o]) : csv.data[o][i] = ptr
TimesFreed(ptr) == Cardinality({i \in 1..Len(csv.frees) : csv.frees[i] = ptr})

\* C30: no string is freed twice, no string is held by two vectors at once,
\* every string is held by a live vector or has been freed, and once no
\* vector is live every string has been freed exactly once.
C30_UniqueOwnership ==
    \A ptr \in 1..csv.allocs :
        /\ TimesFreed(ptr) <= 1
        /\ ~(Holds("a", ptr) /\ Holds("b", ptr))
        /\ TimesFreed(ptr) = 1 \/ \E o \in VecObjs : Holds(o, ptr)
        /\ (\A o \in VecObjs : csv.state[o] = "destroyed") => TimesFreed(ptr) = 1

SelectStep == pc = "select" /\ pc' \in {"service", "reap"}
StdinWriteClosed == closes["stdin"][WRITE] >= 1

\* C31: every wait monitors both output read ends (an end that is readable
\* is reported) and reports the stdin write end exactly when it is open and
\* writable; once the write end has been closed it stays closed, the input
\* dataset is closed, no wait reports it and the input dataset is not read.
C31_InterestSets ==
    [][ /\ SelectStep =>
              /\ \A p \in {"stdout", "stderr"} : (p \in sel'.readfds <=> ReadReady(p))
              /\ "stdin" \in sel'.writefds
                    <=> (fd["stdin"][WRITE] # -1 /\ Len(pipebuf["stdin"]) < PipeCap)
        /\ StdinWriteClosed =>
              /\ fd'["stdin"][WRITE] = -1
              /\ ~file_open'["STDIN"]
              /\ "stdin" \notin sel'.writefds
              /\ stdin_pos' = stdin_pos
      ]_vars

C31_Witness ==
    /\ pc = "service"
    /\ StdinWriteClosed
    /\ Len(pipebuf["stdin"]) < PipeCap
    /\ sel.readfds = {"stdout", "stderr"}
    /\ sel.writefds = {}
    /\ stdin_pos = MaxInput

OutputsStep == pc \in {"service", "outputs"} /\ pc' = "select"
Chunk(p) == IF p \in sel.readfds THEN Take(pipebuf[p], BufSize) ELSE <<>>

\* C32: the step that services the outputs takes from each output pipe that
\* was reported ready one buffer of at most BufSize bytes, nothing from one
\* that was not, and appends exactly these bytes to the destinations, stdout
\* and stderr in the same iteration; the input dataset is read once per
\* iteration, at most BufSize bytes, and only when the stdin write end was
\* reported ready; no other step of the main thread reads or writes.
C32_ServiceOncePerReady ==
    [][ /\ OutputsStep =>
              /\ \A p \in {"stdout", "stderr"} :
                    /\ pipebuf[p] = Chunk(p) \o pipebuf'[p]
                    /\ Len(Chunk(p)) <= BufSize
                    /\ (p \in sel.readfds /\ pipebuf[p] # <<>>) => Len(Chunk(p)) >= 1
              /\ \A d \in OutputDDs :
                    file_data'[d] = file_data[d]
                        \o (IF dataset_stdout_ptr = d THEN Chunk("stdout") ELSE <<>>)
                        \o (IF dataset_stderr_ptr = d THEN Chunk("stderr") ELSE <<>>)
        /\ (pc = "service" /\ pc' # pc) =>
              LET n == stdin_pos' - stdin_pos IN
                /\ n >= 0 /\ n <= BufSize
                /\ n > 0 => "stdin" \in sel.writefds
                /\ ("stdin" \in sel.writefds /\ stdin_pos < Len(args.input)) => n > 0
                /\ "stdin" \notin sel.writefds => pipebuf'["stdin"] = pipebuf["stdin"]
        /\ ~OutputsStep => file_data' = file_data
        /\ pc # "service" => stdin_pos' = stdin_pos
      ]_vars

C32_Witness ==
    /\ pc = "select"
    /\ sel = NoSel
    /\ stdin_pos = BufSize
    /\ file_data["SYSOUT"] = <<OutByte(1), OutByte(2), ErrByte(1)>>
    /\ pipebuf["stdout"] = <<>>
    /\ pipebuf["stderr"] = <<>>

\* C33: the main thread is never suspended in a pipe write that only the
\* child can release (the stdin pipe full) while the child is running and
\* output of the child waits in its stdout pipe.
C33_SuspendsOnlyInWait ==
    ~(/\ pc = "stdin_write"
      /\ Len(pipebuf["stdin"]) = PipeCap
      /\ child.state = "running"
      /\ pipebuf["stdout"] # <<>>)

\* position of a step of the main sequence
Rank(p) ==
    CASE p = "open" -> 1
      [] p = "pipes" -> 2
      [] p = "signals" -> 3
      [] p = "console" -> 4
      [] p = "env" -> 5
      [] p = "spawn" -> 6
      [] p \in LoopPcs -> 7
      [] p = "reap" -> 8
      [] p = "return" -> 9
      [] OTHER -> 10
Reached(n) == Rank(pc) >= n /\ pc \notin {"catch", "done"}
EnvBuilt == call.op = "make_env"
MappedStatus ==
    IF child.status.exited /\ child.status.code # 128 + SIGTERM
      THEN child.status.code ELSE 0

\* C34: the main thread takes the steps in the order open datasets, build
\* pipes, install signal handling, start the console listener, build the
\* environment, spawn the child, relay loop, reap; no step is skipped, each
\* has had its effect before the next begins, and the child is reaped and
\* the return code set only after the loop has been left.
C34_MainSequence ==
    /\ [][pc' # pc =>
            \/ pc' = "catch"
            \/ pc \in {"return", "catch"} /\ pc' = "done"
            \/ Rank(pc') = Rank(pc) + 1
            \/ pc \in LoopPcs /\ pc' \in LoopPcs]_vars
    /\ [](/\ Reached(2) => (file_open["SYSOUT"]
                            /\ (file_open["STDIN"] \/ file_closes["STDIN"] = 1))
          /\ Reached(3) => \A i \in 0..2 : fd_map[i] # -1
          /\ Reached(4) => sigchld.installed
          /\ Reached(5) => (con # "none" \/ args.disable_console_commands)
          /\ Rank(pc) < 5 => con = "none"
          /\ Reached(6) => EnvBuilt
          /\ Rank(pc) < 6 => ~EnvBuilt
          /\ Rank(pc) <= 6 => child.state = "none"
          /\ Reached(7) => child.state # "none"
          /\ child.state = "reaped" => pc \in {"return", "done"}
          /\ pc = "return" => (child.state = "reaped" /\ return_code = MappedStatus)
          /\ pc \notin {"return", "done"} => return_code = 0)

C34_Witness ==
    /\ pc = "return"
    /\ child.state = "reaped"
    /\ child.status = [exited |-> TRUE, code |-> 1]
    /\ return_code = 1
    /\ EnvBuilt
    /\ con = "listening"
    /\ stdin_pos = MaxInput

\* C34 as stated: the environment is built with the pipes, before signal
\* handling is installed and the listener started.
C34_EnvBeforeSignals ==
    (sigchld.installed \/ con # "none") => EnvBuilt

\* C35: unless console commands are disabled the listener has been started
\* before the loop begins and a STOP is taken while the main thread is at any
\* point of the loop; with console commands disabled there is no listener, no
\* STOP is taken and no process is ever sent a signal.
C35_ListenerUnlessDisabled ==
    /\ [](/\ args.disable_console_commands
                => (con = "none" /\ stops = 0 /\ term = {} /\ proc # "killed")
          /\ (~args.disable_console_commands /\ pc \in LoopPcs \cup PostLoopPcs)
                => con \in {"listening", "exited"}
          /\ (con = "listening" /\ stops < MaxStops /\ proc = "alive"
                 /\ pc \in LoopPcs) => ENABLED ConsoleStop)
    /\ [][term' # term => (con = "listening" /\ ~args.disable_console_commands
                           /\ pc' = pc)]_vars

C35_Witness ==
    /\ ~args.disable_console_commands
    /\ pc = "stdin_write"
    /\ con = "listening"
    /\ stops = 1
    /\ "child" \in term
    /\ proc = "alive"

OpenEnds(f) == Cardinality({sd \in Sides : f[sd] # -1})
CloseCalls(cl, p) == cl[p][READ] + cl[p][WRITE]
IsMove == pc \in MovePcs /\ call.op \in {"move_construct", "move_assign"}

\* C36: right after a move between two objects the source holds no
\* descriptor and the destination holds those the source held; a move
\* assignment has first closed each end the destination held, once; a self
\* assignment changes nothing; and no descriptor is ever held open by two
\* ends of the objects, nor closed a second time when they are destroyed.
C36_MoveExclusive ==
    /\ \A p \in Pipes, q \in Pipes, sd \in Sides, t \in Sides :
          (fd[p][sd] # -1 /\ <<p, sd>> # <<q, t>>) => fd[p][sd] # fd[q][t]
    /\ (IsMove /\ call.dst # call.src) =>
          /\ fd[call.src] = [sd \in Sides |-> -1]
          /\ fd[call.dst] = call.fd[call.src]
          /\ CloseCalls(closes, call.dst)
                = CloseCalls(call.closes, call.dst) + OpenEnds(call.fd[call.dst])
          /\ \A p \in Pipes \ {call.src, call.dst} :
                fd[p] = call.fd[p] /\ closes[p] = call.closes[p]
    /\ (IsMove /\ call.dst = call.src) => (fd = call.fd /\ closes = call.closes)
    /\ CloseCalls(closes, "stdin") + CloseCalls(closes, "stdout")
          + CloseCalls(closes, "stderr") <= 4
    /\ pc = "done" => CloseCalls(closes, "stdin") + CloseCalls(closes, "stdout")
                        + CloseCalls(closes, "stderr") = 4

C36_Witness ==
    /\ pc = "move3"
    /\ call.op = "move_assign"
    /\ call.dst = "stdout"
    /\ call.src = "stderr"
    /\ OpenEnds(call.fd["stdout"]) = 2
    /\ OpenEnds(call.fd["stderr"]) = 2
    /\ OpenEnds(fd["stdout"]) = 2
    /\ fd["stderr"] = [sd \in Sides |-> -1]

\* C37: the supervisor is never among the processes the listener sends TERM
\* to: a STOP taken before the child is spawned signals nobody, and one taken
\* later signals members of the child's group only.
C37_StopTargetsChildGroup ==
    /\ "super" \notin term
    /\ proc # "killed"
    /\ child.state = "none" => term = {}

ChildGone == child.state \in {"zombie", "reaped"}

C39_OnlyHandlerPosts ==
    /\ [][/\ shutdown_ecb' # shutdown_ecb
                => (sigchld.pending /\ ~sigchld'.pending /\ shutdown_ecb' = 1
                    /\ stops' = stops /\ term' = term)
          /\ stops' # stops => (shutdown_ecb' = shutdown_ecb /\ pc' = pc)]_vars
    /\ [](/\ child.state = "running" => (shutdown_ecb = 0 /\ pc \notin PostLoopPcs)
          /\ pc \in PostLoopPcs => ChildGone)

C39_Witness ==
    /\ "child" \in term
    /\ child.state = "running"
    /\ pc = "service"
    /\ sel.rc = 2
    /\ shutdown_ecb = 0
    /\ child.got # <<>>

\* C40: a supervisor that ran to its return after reaping a child ended by a
\* signal exits with 0, whichever the signal; an exit code other than 0 and
\* 12 is the code of a child that exited normally, with a code that is
\* neither 0 nor 128 + SIGTERM.
C40_SignalDeathIsZero ==
    proc = "exited" =>
        /\ (child.state = "reaped" /\ ~child.status.exited) => exit_code = 0
        /\ exit_code \notin {0, 12} =>
              /\ child.state = "reaped"
              /\ child.status.exited
              /\ child.status.code = exit_code
              /\ child.status.code # 128 + SIGTERM

C40_Witness ==
    /\ proc = "exited"
    /\ child.state = "reaped"
    /\ child.status = [exited |-> FALSE, code |-> SIGKILL]
    /\ exit_code = 0
    /\ stops = 0
====
